---- MODULE Spec2Model ----
(***************************************************************************)
(* joint_label_fusion of ants/segmentation/joint_label_fusion.py as a      *)
(* state machine.  Volumes are flattened to NVox voxels; a caller issues   *)
(* up to MaxCalls calls, the probability files of a call that names an     *)
(* output_prefix stay on disk between calls.                               *)
(***************************************************************************)
EXTENDS Integers, Sequences, FiniteSets, TLC

\* ------------------------------------------------------------------ bounds
NVox == 2
ImageDim == 2
MaxAtlases == 2
MaxCalls == 2

Voxels == 1..NVox
\* label values a caller's label volume may hold; 99 + 1 has three digits
LabelIds == {0, 99}
MaskVals == {0, 1}

\* None in a list of label volumes
NoneVol == << >>
\* label_list=None
NoLabels == [given |-> FALSE, vols |-> << >>]
\* an argument that no line has read yet
NoRad == [list |-> FALSE, v |-> << >>]
NoStr == << >>
ZeroVol == [v \in Voxels |-> 0]
NoLib == [invoked |-> FALSE, x |-> ZeroVol, p |-> NoStr, l |-> << >>, wrote |-> << >>]
NoResult == [segmentation |-> ZeroVol, intensity |-> ZeroVol,
             probabilityimages |-> << >>, probsout |-> << >>]
NoPre == [target_image |-> ZeroVol, target_image_mask |-> ZeroVol,
          atlas_list |-> << >>, label_list |-> NoLabels]
NoFlags == [no_zeroes |-> FALSE, max_lab_plus_one |-> FALSE]

VARIABLES
  pc,                 \* "idle", "setup", "fuse", "resolve", "returned", "raised"
  calls,              \* calls issued so far
  target_image,       \* caller-owned objects
  target_image_mask,
  atlas_list,
  label_list,
  pre,                \* the caller-owned objects as they were at the call
  flags,              \* no_zeroes, max_lab_plus_one
  rad,
  output_prefix,      \* "None" or "P"
  doJif,
  inlabs,
  mymask,
  myrad,
  outimgi,
  lib,                \* what antsJointFusion was handed and what it wrote
  tmp,                \* files under this call's mktemp name
  disk,               \* files under output_prefix
  result,
  err

vars == <<pc, calls, target_image, target_image_mask, atlas_list, label_list, pre,
          flags, rad, output_prefix, doJif, inlabs, mymask, myrad, outimgi, lib,
          tmp, disk, result, err>>

\* ------------------------------------------------------- Python and numpy
RECURSIVE SetMax(_)
SetMax(S) ==
  LET x == CHOOSE y \in S : TRUE
  IN IF S = {x} THEN x
     ELSE LET m == SetMax(S \ {x}) IN IF x > m THEN x ELSE m

RECURSIVE SeqSum(_)
SeqSum(s) == IF s = << >> THEN 0 ELSE Head(s) + SeqSum(Tail(s))

\* image.clone("unsigned int") on the non-negative pixel values of the model
CloneUInt(img) == [v \in DOMAIN img |-> IF img[v] >= 0 THEN img[v] ELSE 0]

\* line 144
DoJif(ll) == (~ll.given) \/ (\E i \in DOMAIN ll.vols : ll.vols[i] = NoneVol)

\* lines 152-154, the mask after  target_image_mask[label == 0] = 0  for every label
MaskOutZeroes_skiplast(mask, vols) ==
  [v \in DOMAIN mask |->
     IF \E k \in DOMAIN vols \ {Len(vols)} : vols[k][v] = 0 THEN 0 ELSE mask[v]]

MaskOutZeroes(mask, vols) ==
  [v \in DOMAIN mask |->
     IF \E k \in DOMAIN vols : vols[k][v] = 0 THEN 0 ELSE mask[v]]

\* lines 155-159: "A and B" on two image objects is B, so the index is label != 0
Inlabs(vols) == {vols[k][v] : k \in DOMAIN vols, v \in Voxels} \ {0}

\* lines 161-163
MaxLabPlusOne(vols, maxLab) ==
  [k \in DOMAIN vols |->
     [v \in DOMAIN vols[k] |-> IF vols[k][v] = 0 THEN maxLab + 1 ELSE vols[k][v]]]

\* ---------------------------------------------------------------- strings
\* a string is a sequence of one-character strings
Digits == <<"0", "1", "2", "3", "4", "5", "6", "7", "8", "9">>
ProbWord == <<"p", "r", "o", "b">>
NiiGz == <<".", "n", "i", "i", ".", "g", "z">>

\* ord() of the characters a file name is made of
Ord(c) ==
  CASE c = "." -> 46
    [] c = "b" -> 98
    [] c = "g" -> 103
    [] c = "i" -> 105
    [] c = "n" -> 110
    [] c = "o" -> 111
    [] c = "p" -> 112
    [] c = "r" -> 114
    [] c = "z" -> 122
    [] OTHER -> 47 + (CHOOSE i \in 1..10 : Digits[i] = c)

\* str(n) of a non-negative integer
RECURSIVE Dec(_)
Dec(n) == IF n < 10 THEN <<Digits[n + 1]>>
          ELSE Dec(n \div 10) \o <<Digits[(n % 10) + 1]>>

\* int(s) of a string of digits
RECURSIVE IntOf(_)
IntOf(s) ==
  IF s = << >> THEN 0
  ELSE 10 * IntOf(SubSeq(s, 1, Len(s) - 1))
       + ((CHOOSE i \in 1..10 : Digits[i] = s[Len(s)]) - 1)

\* sep.join(parts)
RECURSIVE Join(_, _)
Join(sep, parts) ==
  IF parts = << >> THEN << >>
  ELSE IF Len(parts) = 1 THEN parts[1]
  ELSE parts[1] \o sep \o Join(sep, Tail(parts))

\* str(x) of a number or of a list of numbers
PyStr(x) ==
  IF x.list
  THEN <<"[">> \o Join(<<",", " ">>, [i \in DOMAIN x.v |-> Dec(x.v[i])]) \o <<"]">>
  ELSE Dec(x.v[1])

\* the places where pat occurs in s
Occ(s, pat) ==
  {i \in 1..(Len(s) - Len(pat) + 1) : SubSeq(s, i, i + Len(pat) - 1) = pat}

\* s.split(pat)[-1]
AfterLast(s, pat) ==
  IF Occ(s, pat) = {} THEN s
  ELSE SubSeq(s, SetMax(Occ(s, pat)) + Len(pat), Len(s))

\* s.split(pat)[0]
BeforeFirst(s, pat) ==
  IF Occ(s, pat) = {} THEN s
  ELSE SubSeq(s, 1, (CHOOSE i \in Occ(s, pat) : \A j \in Occ(s, pat) : i <= j) - 1)

\* Python's order on strings
RECURSIVE LexLess(_, _)
LexLess(a, b) ==
  IF a = << >> THEN b # << >>
  ELSE IF b = << >> THEN FALSE
  ELSE IF Head(a) = Head(b) THEN LexLess(Tail(a), Tail(b))
  ELSE Ord(Head(a)) < Ord(Head(b))

\* list.sort() of a set of distinct strings
RECURSIVE SortedNames(_)
SortedNames(S) ==
  IF S = {} THEN << >>
  ELSE LET m == CHOOSE x \in S : \A y \in S \ {x} : LexLess(x, y)
       IN <<m>> \o SortedNames(S \ {m})

\* "%02d" % n
Fmt02d(n) == IF n < 10 THEN <<"0">> \o Dec(n) ELSE Dec(n)

\* the base name "prob%02d.nii.gz" % n of lines 175 and 181, after the prefix
ProbName(n) == ProbWord \o Fmt02d(n) \o NiiGz

\* lines 260-261
SegNum(name) == BeforeFirst(AfterLast(name, ProbWord), NiiGz)

\* ------------------------------------------------------------ patch radius
\* lines 202-205
MyRad(r, mydim) ==
  IF (~r.list) \/ Len(r.v) = 1
  THEN [i \in 1..mydim |-> r]
  ELSE [i \in 1..Len(r.v) |-> [list |-> FALSE, v |-> <<r.v[i]>>]]

\* line 210
MyRadStr(mr) == Join(<<"x">>, [i \in DOMAIN mr |-> PyStr(mr[i])])

\* ------------------------------------------------------- the fusion routine
\* the classes antsJointFusion votes on: the labels the atlases hold in the mask
LibClasses(x, labs) ==
  {labs[k][v] : k \in DOMAIN labs, v \in {u \in Voxels : x[u] # 0}}

\* the vote mass of class c, every atlas weighing 1
LibProb(c, x, labs) ==
  [v \in Voxels |->
     IF x[v] # 0 THEN Cardinality({k \in DOMAIN labs : labs[k][v] = c}) ELSE 0]

\* one probability file per class, named by the pattern of the "o" argument
LibFiles(x, labs) ==
  [nm \in {ProbName(c) : c \in LibClasses(x, labs)} |->
     LibProb(CHOOSE c \in LibClasses(x, labs) : ProbName(c) = nm, x, labs)]

\* the fused intensity, every atlas weighing 1/N
LibIntensity(x, atlases) ==
  [v \in Voxels |->
     IF x[v] # 0 /\ atlases # << >>
     THEN SeqSum([k \in DOMAIN atlases |-> atlases[k][v]]) \div Len(atlases)
     ELSE 0]

\* files written over the files that are there
WriteFiles(old, new) ==
  [nm \in DOMAIN old \cup DOMAIN new |-> IF nm \in DOMAIN new THEN new[nm] ELSE old[nm]]

\* ---------------------------------------------------------- label resolution
\* iio2.images_to_matrix(probimgs, target_image_mask): the voxels of the mask
MaskedVoxels(mask) == {v \in Voxels : mask[v] # 0}

\* numpy's argmax over the images at one voxel: the first of the largest, from 0
ArgMax(imgs, v) ==
  (CHOOSE i \in DOMAIN imgs :
     /\ \A j \in DOMAIN imgs : imgs[j][v] <= imgs[i][v]
     /\ \A j \in DOMAIN imgs : j < i => imgs[j][v] < imgs[i][v]) - 1

\* lines 259-262: finalsegvec2[finalsegvec == i] = segnum, for i = from .. n-1
RECURSIVE RemapLoop(_, _, _, _)
RemapLoop(i, names, finalsegvec, finalsegvec2) ==
  IF i >= Len(names) THEN finalsegvec2
  ELSE RemapLoop(i + 1, names, finalsegvec,
         [v \in DOMAIN finalsegvec2 |->
            IF finalsegvec[v] = i THEN IntOf(SegNum(names[i + 1]))
            ELSE finalsegvec2[v]])

\* lines 255-263
Segmentation(names, imgs, mask) ==
  LET finalsegvec == [v \in MaskedVoxels(mask) |-> ArgMax(imgs, v)]
      finalsegvec2 == RemapLoop(0, names, finalsegvec, finalsegvec)
  IN [v \in Voxels |-> IF mask[v] # 0 THEN finalsegvec2[v] ELSE 0]

\* lines 247-265 on the files the glob finds
Resolved(files, mask, intensity) ==
  LET probsout == SortedNames(DOMAIN files)
      probimgs == [i \in DOMAIN probsout |-> files[probsout[i]]]
  IN [segmentation |-> Segmentation(probsout, probimgs, mask),
      intensity |-> intensity,
      probabilityimages |-> probimgs,
      probsout |-> probsout]

\* ------------------------------------------------------------ the caller
NoFiles == << >>
TargetVol == [v \in Voxels |-> 7]
AtlasVol(k) == [v \in Voxels |-> 10 * k]
Masks == [Voxels -> MaskVals]
LabelVols == [Voxels -> LabelIds]
LabelLists ==
  {NoLabels} \cup
  {[given |-> TRUE, vols |-> s] :
     s \in UNION {[1..n -> LabelVols \cup {NoneVol}] : n \in 0..MaxAtlases}}
\* rad=2, rad=[2], rad=[1, 2], rad=[1, 2, 3]
Rads == {[list |-> FALSE, v |-> <<2>>], [list |-> TRUE, v |-> <<2>>],
         [list |-> TRUE, v |-> <<1, 2>>], [list |-> TRUE, v |-> <<1, 2, 3>>]}
Prefixes == {"None", "P"}

Init ==
  /\ pc = "idle"
  /\ calls = 0
  /\ target_image = ZeroVol
  /\ target_image_mask = ZeroVol
  /\ atlas_list = << >>
  /\ label_list = NoLabels
  /\ pre = NoPre
  /\ flags = NoFlags
  /\ rad = NoRad
  /\ output_prefix = "None"
  /\ doJif = TRUE
  /\ inlabs = {}
  /\ mymask = ZeroVol
  /\ myrad = NoStr
  /\ outimgi = ZeroVol
  /\ lib = NoLib
  /\ tmp = NoFiles
  /\ disk = NoFiles
  /\ result = NoResult
  /\ err = "none"

\* the call and lines 143-166: the mode, the length check and the label pre-pass
Enter(mask, ll, n, nz, mlp) ==
  /\ pc = "idle"
  /\ calls < MaxCalls
  /\ calls' = calls + 1
  /\ target_image' = TargetVol
  /\ atlas_list' = [k \in 1..n |-> AtlasVol(k)]
  /\ pre' = [target_image |-> TargetVol, target_image_mask |-> mask,
             atlas_list |-> [k \in 1..n |-> AtlasVol(k)], label_list |-> ll]
  /\ flags' = [no_zeroes |-> nz, max_lab_plus_one |-> mlp]
  /\ doJif' = DoJif(ll)
  /\ IF DoJif(ll)
     THEN /\ target_image_mask' = mask
          /\ label_list' = ll
          /\ inlabs' = {}
          /\ mymask' = mask
          /\ pc' = "setup"
          /\ err' = "none"
     ELSE IF Len(ll.vols) # n
     THEN /\ target_image_mask' = mask
          /\ label_list' = ll
          /\ inlabs' = {}
          /\ mymask' = ZeroVol
          /\ pc' = "raised"
          /\ err' = "ValueError_len"
     ELSE LET m1 == IF nz THEN MaskOutZeroes(mask, ll.vols) ELSE mask
              inl == Inlabs(ll.vols)
          IN /\ target_image_mask' = m1
             /\ inlabs' = inl
             /\ IF inl = {}
                THEN /\ label_list' = ll
                     /\ mymask' = ZeroVol
                     /\ pc' = "raised"
                     /\ err' = "ValueError_max"
                ELSE /\ label_list' =
                          IF mlp
                          THEN [ll EXCEPT !.vols = MaxLabPlusOne(ll.vols, SetMax(inl))]
                          ELSE ll
                     /\ mymask' = m1
                     /\ pc' = "setup"
                     /\ err' = "none"
  /\ UNCHANGED <<rad, output_prefix, myrad, outimgi, lib, tmp, disk, result>>

\* lines 168-210: the file names, the output images, the patch radius
Setup(r, op) ==
  /\ pc = "setup"
  /\ rad' = r
  /\ output_prefix' = op
  /\ tmp' = NoFiles
  /\ IF (~doJif) /\ Len(label_list.vols) < 2
     THEN /\ pc' = "raised"
          /\ err' = "IndexError"
          /\ UNCHANGED <<mymask, myrad, outimgi>>
     ELSE /\ outimgi' = [v \in Voxels |-> target_image[v] * 0]
          /\ mymask' = CloneUInt(mymask)
          /\ IF Len(MyRad(r, ImageDim)) # ImageDim
             THEN /\ pc' = "raised"
                  /\ err' = "ValueError_rad"
                  /\ myrad' = myrad
             ELSE /\ pc' = "fuse"
                  /\ err' = err
                  /\ myrad' = MyRadStr(MyRad(r, ImageDim))
  /\ UNCHANGED <<calls, target_image, target_image_mask, atlas_list, label_list, pre,
                 flags, doJif, inlabs, lib, disk, result>>

\* lines 211-245: the arguments, antsJointFusion, the return of intensity fusion
Fuse ==
  /\ pc = "fuse"
  /\ LET castsegs == IF doJif THEN << >>
                     ELSE [k \in DOMAIN atlas_list |-> CloneUInt(label_list.vols[k])]
         wrote == IF doJif THEN NoFiles ELSE LibFiles(mymask, castsegs)
         fused == LibIntensity(mymask, atlas_list)
     IN /\ lib' = [invoked |-> TRUE, x |-> mymask, p |-> myrad, l |-> castsegs,
                   wrote |-> wrote]
        /\ outimgi' = fused
        /\ IF output_prefix = "None"
           THEN tmp' = WriteFiles(tmp, wrote) /\ disk' = disk
           ELSE disk' = WriteFiles(disk, wrote) /\ tmp' = tmp
        /\ IF doJif
           THEN pc' = "returned" /\ result' = [NoResult EXCEPT !.intensity = fused]
           ELSE pc' = "resolve" /\ result' = result
  /\ UNCHANGED <<calls, target_image, target_image_mask, atlas_list, label_list, pre,
                 flags, rad, output_prefix, doJif, inlabs, mymask, myrad, err>>

\* lines 247-265: the probability files, the arg-max, the original label ids
Resolve ==
  /\ pc = "resolve"
  /\ LET files == IF output_prefix = "None" THEN tmp ELSE disk
     IN IF DOMAIN files = {}
        THEN pc' = "raised" /\ err' = "ValueError_argmax" /\ result' = result
        ELSE /\ pc' = "returned"
             /\ err' = err
             /\ result' = Resolved(files, target_image_mask, outimgi)
  /\ UNCHANGED <<calls, target_image, target_image_mask, atlas_list, label_list, pre,
                 flags, rad, output_prefix, doJif, inlabs, mymask, myrad, outimgi, lib,
                 tmp, disk>>

\* the caller takes the result or the error; the files of output_prefix stay
Discard ==
  /\ pc \in {"returned", "raised"}
  /\ pc' = "idle"
  /\ target_image' = ZeroVol
  /\ target_image_mask' = ZeroVol
  /\ atlas_list' = << >>
  /\ label_list' = NoLabels
  /\ pre' = NoPre
  /\ flags' = NoFlags
  /\ rad' = NoRad
  /\ output_prefix' = "None"
  /\ doJif' = TRUE
  /\ inlabs' = {}
  /\ mymask' = ZeroVol
  /\ myrad' = NoStr
  /\ outimgi' = ZeroVol
  /\ lib' = NoLib
  /\ tmp' = NoFiles
  /\ result' = NoResult
  /\ err' = "none"
  /\ UNCHANGED <<calls, disk>>

Next ==
  \/ /\ pc = "idle"
     /\ \E mask \in Masks, ll \in LabelLists, n \in 0..MaxAtlases,
           nz \in BOOLEAN, mlp \in BOOLEAN : Enter(mask, ll, n, nz, mlp)
  \/ /\ pc = "setup"
     /\ \E r \in Rads, op \in Prefixes : Setup(r, op)
  \/ Fuse
  \/ Resolve
  \/ Discard

Spec == Init /\ [][Next]_vars

\* one call on a disk that holds no earlier call's files
EnterFirst(mask, ll, n, nz, mlp) == calls = 0 /\ Enter(mask, ll, n, nz, mlp)

NextCall ==
  \/ /\ pc = "idle" /\ calls = 0
     /\ \E mask \in Masks, ll \in LabelLists, n \in 0..MaxAtlases,
           nz \in BOOLEAN, mlp \in BOOLEAN : EnterFirst(mask, ll, n, nz, mlp)
  \/ /\ pc = "setup"
     /\ \E r \in Rads, op \in Prefixes : Setup(r, op)
  \/ Fuse
  \/ Resolve
  \/ Discard

SpecCall == Init /\ [][NextCall]_vars

\* ------------------------------------------------------------------ claims
\* rad is a number, a list of one number, or a list of one number per axis
RadAccepted(r) == (~r.list) \/ Len(r.v) = 1 \/ Len(r.v) = ImageDim

\* the radius of each axis that an accepted rad stands for
RadPerAxis(r) ==
  IF (~r.list) \/ Len(r.v) = 1 THEN [i \in 1..ImageDim |-> r.v[1]] ELSE r.v

\* s.split("x")
RECURSIVE SplitX(_)
SplitX(s) ==
  IF Occ(s, <<"x">>) = {} THEN <<s>>
  ELSE <<BeforeFirst(s, <<"x">>)>>
       \o SplitX(SubSeq(s, Len(BeforeFirst(s, <<"x">>)) + 2, Len(s)))

PlainNumber(tok) ==
  tok # << >> /\ \A i \in DOMAIN tok : \E d \in 1..10 : Digits[d] = tok[i]

\* a set of numbers in ascending order
RECURSIVE Ascending(_)
Ascending(S) ==
  IF S = {} THEN << >>
  ELSE LET m == CHOOSE x \in S : \A y \in S : x <= y
       IN <<m>> \o Ascending(S \ {m})

Labelled == pc # "idle" /\ ~doJif
\* the label ids of the returned probability volumes, in the order of the list
ResultIds == [i \in DOMAIN result.probsout |-> IntOf(SegNum(result.probsout[i]))]
\* the classes this call's atlases hold in the mask the routine was handed
CallClasses == LibClasses(lib.x, lib.l)

\* C1: when the call ends in the length error or the patch radius error, the
\* caller's mask and label volumes hold the values they held before the call.
C1_FatalErrorKeepsInputs ==
  (pc = "raised" /\ err \in {"ValueError_len", "ValueError_rad"})
    => /\ target_image_mask = pre.target_image_mask
       /\ label_list = pre.label_list

\* C2: a call with max_lab_plus_one = False returns with the target image, the
\* mask, the atlas intensities and the atlas labels as they were at the call.
C2_NoInputMutationWithoutMaxLab ==
  (pc = "returned" /\ ~flags.max_lab_plus_one)
    => /\ target_image = pre.target_image
       /\ target_image_mask = pre.target_image_mask
       /\ atlas_list = pre.atlas_list
       /\ label_list = pre.label_list

\* C3: after the max_lab_plus_one pre-pass every voxel of the target mask has a
\* non-zero label in every label volume (a zero became max label + 1) and every
\* voxel outside the mask keeps the label it had before the call.
C3_MaxLabPrePass ==
  (Labelled /\ flags.max_lab_plus_one /\ pc \in {"setup", "fuse", "resolve", "returned"})
    => \A k \in DOMAIN label_list.vols : \A v \in Voxels :
         LET before == pre.label_list.vols[k][v]
             after == label_list.vols[k][v]
         IN /\ pre.target_image_mask[v] # 0 =>
                 /\ after # 0
                 /\ after = IF before = 0
                            THEN SetMax(Inlabs(pre.label_list.vols)) + 1
                            ELSE before
            /\ pre.target_image_mask[v] = 0 => after = before

\* C4: a call with one atlas and its one label volume (some label non-zero, rad
\* of an accepted form) completes, and returns that atlas's intensity and that
\* atlas's label at every voxel of the mask.
C4_SingleAtlas ==
  ( /\ Labelled
    /\ Len(pre.atlas_list) = 1
    /\ Len(pre.label_list.vols) = 1
    /\ Inlabs(pre.label_list.vols) # {}
    /\ \E v \in Voxels : pre.target_image_mask[v] # 0 /\ pre.label_list.vols[1][v] # 0
    /\ (rad = NoRad \/ RadAccepted(rad)) )
    => /\ pc # "raised"
       /\ pc = "returned" =>
            \A v \in MaskedVoxels(target_image_mask) :
              /\ result.intensity[v] = pre.atlas_list[1][v]
              /\ result.segmentation[v] = pre.label_list.vols[1][v]

\* C5: a call that violates a precondition (label and atlas lists of different
\* length, a patch radius of the wrong length, an empty atlas list) never
\* reaches antsJointFusion and never returns a result.
C5_PreconditionViolationFails ==
  ( /\ pc # "idle"
    /\ \/ (~doJif) /\ Len(pre.label_list.vols) # Len(pre.atlas_list)
       \/ rad # NoRad /\ ~RadAccepted(rad)
       \/ Len(pre.atlas_list) = 0 )
    => ~lib.invoked /\ pc # "returned"

\* C6: in the returned segmentation every voxel of the mask holds the label id
\* of the class of largest probability, the lowest class index (classes in
\* ascending id order) winning a tie, and the returned volumes stand for
\* exactly the classes of the call, one each.
C6_SegmentationIsArgMaxClass ==
  (Labelled /\ pc = "returned")
    => LET asc == Ascending(CallClasses)
           probs == [i \in DOMAIN asc |-> LibProb(asc[i], lib.x, lib.l)]
       IN /\ \A v \in MaskedVoxels(target_image_mask) :
               result.segmentation[v] = asc[ArgMax(probs, v) + 1]
          /\ {ResultIds[i] : i \in DOMAIN ResultIds} = CallClasses
          /\ \A i, j \in DOMAIN ResultIds : ResultIds[i] = ResultIds[j] => i = j

\* C7: probabilityimages has one volume per label value the atlas labels hold
\* in the mask, in ascending order of label id.
C7_ProbabilityImagesAscending ==
  (Labelled /\ pc = "returned")
    => /\ Len(result.probabilityimages) = Cardinality(CallClasses)
       /\ {ResultIds[i] : i \in DOMAIN ResultIds} = CallClasses
       /\ \A i, j \in DOMAIN ResultIds : i < j => ResultIds[i] < ResultIds[j]

\* C8: the segmentation and the probabilityimages a call returns (a call whose
\* classes are not empty) are those it would return as the first call, from the
\* files this call wrote alone.
C8_ResultIndependentOfEarlierCalls ==
  (Labelled /\ pc = "returned" /\ DOMAIN lib.wrote # {})
    => /\ result.segmentation =
            Resolved(lib.wrote, target_image_mask, outimgi).segmentation
       /\ result.probabilityimages =
            Resolved(lib.wrote, target_image_mask, outimgi).probabilityimages

\* C9: with no_zeroes and labels, the mask handed to antsJointFusion holds no
\* voxel where an atlas label of the caller is zero, and holds every voxel of
\* the caller's mask where all atlas labels are non-zero.
C9_NoZeroesMask ==
  (Labelled /\ flags.no_zeroes /\ lib.invoked)
    => \A v \in Voxels :
         lib.x[v] # 0 <=>
           /\ pre.target_image_mask[v] # 0
           /\ \A k \in DOMAIN pre.label_list.vols : pre.label_list.vols[k][v] # 0

\* C9 witness: the routine was handed a mask that lost one voxel of the
\* caller's mask to a zero label and kept another.
C9_Witness ==
  /\ Labelled /\ flags.no_zeroes /\ lib.invoked
  /\ \E v \in Voxels : pre.target_image_mask[v] # 0 /\ lib.x[v] = 0
  /\ \E v \in Voxels : pre.target_image_mask[v] # 0 /\ lib.x[v] # 0

\* C10: an accepted rad reaches antsJointFusion as ImageDim plain numbers joined
\* by "x", the radius of each axis in turn; any other rad ends in an error.
C10_PatchRadiusArgument ==
  (pc # "idle" /\ rad # NoRad)
    => IF RadAccepted(rad)
       THEN /\ err # "ValueError_rad"
            /\ lib.invoked =>
                 /\ Len(SplitX(lib.p)) = ImageDim
                 /\ \A i \in DOMAIN SplitX(lib.p) :
                      /\ PlainNumber(SplitX(lib.p)[i])
                      /\ IntOf(SplitX(lib.p)[i]) = RadPerAxis(rad)[i]
       ELSE pc = "raised"

====
